---- MODULE Spec2Model ----
(***************************************************************************)
(* A model of igpet.py: the abbreviation canonicaliser camel and the        *)
(* primitive-mantle normaliser pm_norm, with the module-level objects they  *)
(* read (ree, extended, bse).                                               *)
(*                                                                          *)
(* A Python str is a sequence of one-character strings, so that upper(),    *)
(* lower() and indexing are computed character by character.  A list is a   *)
(* sequence of such strings.  A DataFrame is a record of its column labels, *)
(* its row index and its rows.                                              *)
(***************************************************************************)
EXTENDS Integers, Sequences, FiniteSets, TLC

VARIABLES
    ree,        \* module-level list object `ree`
    extended,   \* module-level list object `extended`
    bse,        \* module-level reference table read from include/bse.csv
    phase,      \* "idle": no call made / result dropped; "returned": a call ended
    args,       \* arguments of the last pm_norm call
    df,         \* the caller's observation table object, as it is after the call
    callerCols, \* the caller's cols list object, as it is after the call
    locals,     \* pm_norm's local bindings when the call ended
    result,     \* outcome of the last pm_norm call
    el,         \* argument handed to camel
    el_camel    \* value camel returned for el

vars == <<ree, extended, bse, phase, args, df, callerCols, locals, result,
          el, el_camel>>

----------------------------------------------------------------------------
(* Bounds of the model *)

MaxLen == 2         \* longest explicit cols list a caller passes
MaxRows == 2        \* most rows in an observation table
MaxAbbrevLen == 3   \* longest abbreviation handed to camel

----------------------------------------------------------------------------
(* str.upper / str.lower, character by character (ASCII letters; any other *)
(* character is left as it is)                                              *)

LowerCase == <<"a","b","c","d","e","f","g","h","i","j","k","l","m",
               "n","o","p","q","r","s","t","u","v","w","x","y","z">>
UpperCase == <<"A","B","C","D","E","F","G","H","I","J","K","L","M",
               "N","O","P","Q","R","S","T","U","V","W","X","Y","Z">>

IsLower(c) == \E i \in 1..Len(LowerCase) : LowerCase[i] = c
IsUpper(c) == \E i \in 1..Len(UpperCase) : UpperCase[i] = c

Upper(c) ==
    IF IsLower(c)
    THEN UpperCase[CHOOSE i \in 1..Len(LowerCase) : LowerCase[i] = c]
    ELSE c

Lower(c) ==
    IF IsUpper(c)
    THEN LowerCase[CHOOSE i \in 1..Len(UpperCase) : UpperCase[i] = c]
    ELSE c

lower(s) == [i \in 1..Len(s) |-> Lower(s[i])]

\* el[0].upper() + el[1:], with the remainder left alone
camel_no_lower(e) == <<Upper(e[1])>> \o SubSeq(e, 2, Len(e))

\* camel: el[0].upper() + el[1:].lower()   (el is a non-empty str)
camel(e) == <<Upper(e[1])>> \o lower(SubSeq(e, 2, Len(e)))

----------------------------------------------------------------------------
(* Module-level objects *)

\* extended = [...]  (the list as the module creates it)
extended_literal == <<
        <<"C","s">>, <<"R","b">>, <<"B","a">>, <<"T","h">>,
        <<"N","b">>, <<"U">>, <<"L","a">>, <<"C","e">>,
        <<"P","b">>, <<"N","d">>, <<"S","r">>, <<"S","m">>,
        <<"Z","r">>, <<"H","f">>, <<"E","u">>, <<"G","d">>,
        <<"T","b">>, <<"D","y">>, <<"E","r">>, <<"Y">>,
        <<"Y","b">>, <<"L","u">>, <<"S","c">>, <<"C","r">>,
        <<"N","i">>
    >>

\* ree = [...]  (the list as the module creates it)
ree_literal == <<
        <<"L","a">>, <<"C","e">>, <<"P","r">>, <<"P","m">>,
        <<"N","d">>, <<"S","m">>, <<"E","u">>, <<"G","d">>,
        <<"T","b">>, <<"D","y">>, <<"H","o">>, <<"E","r">>,
        <<"T","m">>, <<"Y","b">>, <<"L","u">>
    >>

\* A table of normalizing values: `index` holds the element abbreviations,
\* `values` the first data column (norm_vals.loc[k].values[0]).
RefTable(index, values) == [index |-> index, values |-> values]

\* bse = pd.read_csv(include/bse.csv, index_col = "Element"): the file is data,
\* so the table it yields is one of several (with and without Sr).
BseChoices ==
    { RefTable(<< <<"L","a">>, <<"C","e">>, <<"N","d">>, <<"S","r">> >>, <<2, 6, 5, 4>>),
      RefTable(<< <<"C","e">>, <<"L","a">> >>, <<3, 7>>) }

----------------------------------------------------------------------------
(* Values a caller passes *)

\* a Python str argument / a list argument / a DataFrame argument
Str(s) == [type |-> "str", val |-> s]
List(l) == [type |-> "list", val |-> l]
Frame(t) == [type |-> "DataFrame", val |-> t]

\* an observation table: column labels, row index labels, rows of numbers
Table(columns, index, data) == [columns |-> columns, index |-> index, data |-> data]
NoTable == Table(<<>>, <<>>, <<>>)

\* the abbreviations callers use as list entries and column labels
EntryNames == { <<"L","a">>, <<"l","a">>, <<"C","e">>, <<"S","r">>, <<"X","x">> }

\* what two samples hold under each column label
Measured(sample, name) ==
    CASE name = <<"L","a">> -> IF sample = "s1" THEN 20 ELSE 9
      [] name = <<"l","a">> -> IF sample = "s1" THEN 4 ELSE 15
      [] name = <<"C","e">> -> IF sample = "s1" THEN 30 ELSE 8
      [] name = <<"S","r">> -> IF sample = "s1" THEN 100 ELSE 12
      [] OTHER -> 1

ColumnChoices ==
    { << <<"l","a">> >>,
      << <<"S","r">>, <<"L","a">>, <<"C","e">> >>,
      << <<"L","a">>, <<"S","r">> >>,
      << <<"C","e">>, <<"l","a">> >> }

SeqsUpTo(S, n) == UNION { [1..k -> S] : k \in 0..n }

Tables ==
    { Table(cs, ss, [r \in 1..Len(ss) |-> [j \in 1..Len(cs) |-> Measured(ss[r], cs[j])]]) :
        cs \in ColumnChoices, ss \in (SeqsUpTo({"s1", "s2"}, MaxRows) \ {<<>>}) }

StrCols ==
    { <<"r","e","e">>, <<"R","E","E">>, <<"e","x","t","e","n","d","e","d">>,
      <<"L","a">>, <<"l","a">>, <<"S","r">>, <<"X","x">> }

ColsArgs == { Str(s) : s \in StrCols } \cup { List(l) : l \in SeqsUpTo(EntryNames, MaxLen) }

\* norm_vals: the default "bse", or a table the caller supplies
NormValsArgs ==
    { Str(<<"b","s","e">>),
      Frame(RefTable(<< <<"L","a">>, <<"C","e">> >>, <<2, 6>>)) }

----------------------------------------------------------------------------
(* Python values and list operations used by pm_norm *)

\* the None placeholder inside a list of str (no str equals it)
None == <<"None">>

\* bool(x) of a list entry: None and "" are falsy, any other str is truthy
Truthy(x) == x # None /\ Len(x) > 0

\* any(l)
any(l) == \E k \in 1..Len(l) : Truthy(l[k])

\* l.count(x)
count(l, x) == Cardinality({ k \in 1..Len(l) : l[k] = x })

\* l.index(x), for x in l: the first position holding x
index(l, x) == CHOOSE k \in 1..Len(l) : l[k] = x /\ \A j \in 1..(k - 1) : l[j] # x

\* l.pop(k) with the position after the one asked for removed
pop_next(l, k) == SubSeq(l, 1, k) \o SubSeq(l, k + 2, Len(l))

\* l.pop(k): the list after the removal
pop(l, k) == SubSeq(l, 1, k - 1) \o SubSeq(l, k + 1, Len(l))

\* x in norm_vals.index / x in df.columns
InIndex(x, nv) == \E k \in 1..Len(nv.index) : nv.index[k] = x
InColumns(x, d) == \E k \in 1..Len(d.columns) : d.columns[k] = x

\* position of a label in norm_vals.index / df.columns
IndexPos(x, nv) == CHOOSE k \in 1..Len(nv.index) : nv.index[k] = x
ColumnPos(x, d) == CHOOSE k \in 1..Len(d.columns) : d.columns[k] = x

RECURSIVE GCD(_, _)
GCD(a, b) == IF b = 0 THEN a ELSE GCD(b, a % b)

\* a / b for numbers a >= 0, b > 0, as the fraction in lowest terms
Div(a, b) == LET g == GCD(a, b) IN <<a \div g, b \div g>>

----------------------------------------------------------------------------
(* pm_norm, step by step.  List objects live in a heap keyed by reference:  *)
(* "ree" and "extended" are the module's lists, "arg" the caller's list,    *)
(* "one" the list [cols] built for a single abbreviation, "subset" the list *)
(* the comprehension builds.  The reference "False" stands for the value    *)
(* False bound to cols or subset_cols.                                      *)

Heap(cols) ==
    [ree |-> ree, extended |-> extended,
     arg |-> IF cols.type = "list" THEN cols.val ELSE <<>>,
     one |-> <<>>, subset |-> <<>>]

\* lines 153-165: bind cols to a list; norm_vals is still the argument as
\* passed, and a str has no iterable .index (str.index is a method)
BindCols(cols, norm_vals, heap) ==
    IF cols.type # "str"
    THEN [exc |-> "", cols |-> "arg", heap |-> heap]
    ELSE IF lower(cols.val) = <<"r","e","e">>
    THEN [exc |-> "", cols |-> "ree", heap |-> heap]
    ELSE IF lower(cols.val) = <<"e","x","t","e","n","d","e","d">>
    THEN [exc |-> "", cols |-> "extended", heap |-> heap]
    ELSE IF norm_vals.type = "str"
    THEN [exc |-> "TypeError", cols |-> "False", heap |-> heap]
    ELSE IF InIndex(cols.val, norm_vals.val)
    THEN [exc |-> "", cols |-> "one", heap |-> [heap EXCEPT !["one"] = <<cols.val>>]]
    ELSE [exc |-> "", cols |-> "False", heap |-> heap]

\* lines 168-172: the default norm_vals names the built-in table
ResolveNormVals(norm_vals) ==
    IF norm_vals.type = "str" /\ lower(norm_vals.val) = <<"b","s","e">>
    THEN Frame(bse)
    ELSE norm_vals

\* line 176: the test of the first comprehension (reference table only)
Keep_norm_only(i, nv, d) == InIndex(camel(i), nv)

\* lines 180-181: the test of the comprehension that decides subset_cols
Keep(i, nv, d) == InIndex(camel(i), nv) /\ InColumns(i, d)

\* lines 180-181: [i if ... else None for i in cols]
Marked(l, nv, d) == [k \in 1..Len(l) |-> IF Keep(l[k], nv, d) THEN l[k] ELSE None]

\* lines 196-201: n = count(None), then n times pop(index(None)); a failing
\* index() ends the loop (the bare except swallows the ValueError)
RECURSIVE PopNone(_, _)
PopNone(l, n) ==
    IF n = 0 \/ count(l, None) = 0
    THEN l
    ELSE PopNone(pop(l, index(l, None)), n - 1)

\* the comprehension filters the list cols is bound to, in place
SubsetRef_in_place(colsRef) == colsRef

\* lines 180-181: a list comprehension builds a new list object
SubsetRef(colsRef) == "subset"

\* lines 175-213: subset_cols
FindSubset(colsRef, heap, nv, d) ==
    IF colsRef = "False" \/ Len(heap[colsRef]) = 0
    THEN [exc |-> "", subset_cols |-> "False", heap |-> heap]
    ELSE IF nv.type = "str"
    THEN [exc |-> "TypeError", subset_cols |-> "False", heap |-> heap]
    ELSE LET ref == SubsetRef(colsRef)
             h1 == [heap EXCEPT ![ref] = Marked(heap[colsRef], nv.val, d)]
         IN IF ~any(h1[ref])
            THEN [exc |-> "", subset_cols |-> "False", heap |-> h1]
            ELSE [exc |-> "", subset_cols |-> ref,
                  heap |-> [h1 EXCEPT ![ref] = PopNone(h1[ref], count(h1[ref], None))]]

----------------------------------------------------------------------------
(* Normalization.  DataFrame objects live in a heap of their own: "df" is   *)
(* the caller's table, "df_to_norm" and "norm_df" the tables pm_norm makes. *)

Frames(d) == [df |-> d, df_to_norm |-> NoTable, norm_df |-> NoTable]

\* line 219: df[subset_cols], a new table holding the named columns
Select(d, subset) ==
    Table(subset, d.index,
          [r \in 1..Len(d.data) |->
              [k \in 1..Len(subset) |-> d.data[r][ColumnPos(subset[k], d)]]])

\* line 222: norm_vals.loc[camel(i)].values[0] for the element at position k
normer(nv, subset, k) == nv.values[IndexPos(camel(subset[k]), nv)]

\* line 222: normers
normers(nv, subset) == [k \in 1..Len(subset) |-> normer(nv, subset, k)]

\* df_to_norm * normers in place of the quotient
Multiply(t, ns) ==
    Table(t.columns, t.index,
          [r \in 1..Len(t.data) |->
              [k \in 1..Len(t.columns) |-> <<t.data[r][k] * ns[k], 1>>]])

\* line 225: df_to_norm / normers, the array broadcast along the columns
Divide(t, ns) ==
    Table(t.columns, t.index,
          [r \in 1..Len(t.data) |->
              [k \in 1..Len(t.columns) |-> Div(t.data[r][k], ns[k])]])

\* line 228: the table whose column labels are assigned
RenameTarget == "norm_df"

\* lines 216-230: normalization of the columns found
Normalize(subsetRef, heap, nv, frames) ==
    IF subsetRef = "False" \/ Len(heap[subsetRef]) = 0
    THEN [exc |-> "", bound |-> FALSE, frames |-> frames]
    ELSE LET subset == heap[subsetRef] IN
         IF \E k \in 1..Len(subset) : ~InColumns(subset[k], frames.df)
         THEN [exc |-> "KeyError", bound |-> FALSE, frames |-> frames]
         ELSE IF \E k \in 1..Len(subset) : ~InIndex(camel(subset[k]), nv.val)
         THEN [exc |-> "KeyError", bound |-> FALSE,
               frames |-> [frames EXCEPT !.df_to_norm = Select(frames.df, subset)]]
         ELSE LET f1 == [frames EXCEPT !.df_to_norm = Select(frames.df, subset)]
                  f2 == [f1 EXCEPT !.norm_df = Divide(f1.df_to_norm, normers(nv.val, subset))]
                  labels == [k \in 1..Len(f2.norm_df.columns) |-> camel(f2.norm_df.columns[k])]
              IN [exc |-> "", bound |-> TRUE,
                  frames |-> [f2 EXCEPT ![RenameTarget].columns = labels]]

\* what a call leaves behind: its outcome, the objects it could reach, and
\* its local bindings (cols after line 165, subset_cols at line 216)
Ended(kind, exc, table, heap, frames, colsRef, subsetRef, normalized) ==
    [result |-> [kind |-> kind, exc |-> exc, table |-> table],
     heap |-> heap, frames |-> frames,
     locals |-> [cols |-> colsRef,
                 cols_val |-> IF colsRef = "False" THEN <<>> ELSE heap[colsRef],
                 subset_cols |-> subsetRef,
                 subset_val |-> IF subsetRef = "False" THEN <<>> ELSE heap[subsetRef],
                 normalized |-> normalized]]

\* lines 75-236: pm_norm.  squeeze and interp are parameters the body never
\* reads.  The outcome is the table norm_df, the value None (norm_df was
\* never bound; the bare except of lines 232-235 ends the call), or an
\* exception that leaves the function.
pm_norm(d, cols, squeeze, interp, norm_vals) ==
    LET b == BindCols(cols, norm_vals, Heap(cols)) IN
    IF b.exc # ""
    THEN Ended("raise", b.exc, NoTable, b.heap, Frames(d), b.cols, "False", FALSE)
    ELSE LET nv == ResolveNormVals(norm_vals)
             s == FindSubset(b.cols, b.heap, nv, d)
         IN IF s.exc # ""
            THEN Ended("raise", s.exc, NoTable, s.heap, Frames(d), b.cols, "False", FALSE)
            ELSE LET n == Normalize(s.subset_cols, s.heap, nv, Frames(d)) IN
                 IF n.exc # ""
                 THEN Ended("raise", n.exc, NoTable, s.heap, n.frames,
                            b.cols, s.subset_cols, TRUE)
                 ELSE IF n.bound
                 THEN Ended("DataFrame", "", n.frames.norm_df, s.heap, n.frames,
                            b.cols, s.subset_cols, TRUE)
                 ELSE Ended("None", "", NoTable, s.heap, n.frames,
                            b.cols, s.subset_cols, FALSE)

----------------------------------------------------------------------------
(* The program as a state machine: the module is imported (Init), a caller  *)
(* calls pm_norm with arguments of its own (Call), calls it again with the  *)
(* same objects (Repeat), or drops the outcome and its arguments (Release). *)

NoArgs == [df |-> NoTable, cols |-> List(<<>>), squeeze |-> TRUE, interp |-> FALSE,
           norm_vals |-> Str(<<"b","s","e">>)]
NoResult == [kind |-> "none", exc |-> "", table |-> NoTable]
NoLocals == [cols |-> "False", cols_val |-> <<>>, subset_cols |-> "False",
             subset_val |-> <<>>, normalized |-> FALSE]

\* lines 25-47: the module-level objects after import
ModuleInit ==
    /\ extended = extended_literal
    /\ ree = ree_literal
    /\ bse \in BseChoices

Idle ==
    /\ phase = "idle"
    /\ args = NoArgs
    /\ df = NoTable
    /\ callerCols = <<>>
    /\ locals = NoLocals
    /\ result = NoResult

Init ==
    /\ ModuleInit
    /\ Idle
    /\ el = <<>>
    /\ el_camel = <<>>

\* the effect of one execution of pm_norm on the state
Executes(d, c, sq, ip, nvs) ==
    \E r \in {pm_norm(d, c, sq, ip, nvs)} :
    /\ result' = r.result
    /\ locals' = r.locals
    /\ ree' = r.heap.ree
    /\ extended' = r.heap.extended
    /\ callerCols' = r.heap.arg
    /\ df' = r.frames.df
    /\ bse' = bse

Call(d, c, sq, ip, nvs) ==
    /\ phase' = "returned"
    /\ args' = [df |-> d, cols |-> c, squeeze |-> sq, interp |-> ip, norm_vals |-> nvs]
    /\ Executes(d, c, sq, ip, nvs)
    /\ UNCHANGED <<el, el_camel>>

Repeat ==
    /\ phase = "returned"
    /\ Executes(df, IF args.cols.type = "list" THEN List(callerCols) ELSE args.cols,
                args.squeeze, args.interp, args.norm_vals)
    /\ UNCHANGED <<phase, args, el, el_camel>>

Release ==
    /\ phase = "returned"
    /\ phase' = "idle"
    /\ args' = NoArgs
    /\ df' = NoTable
    /\ callerCols' = <<>>
    /\ locals' = NoLocals
    /\ result' = NoResult
    /\ UNCHANGED <<ree, extended, bse, el, el_camel>>

\* a caller holding no outcome calls pm_norm with arguments of its choice
CallAny ==
    /\ phase = "idle"
    /\ \E d \in Tables, c \in ColsArgs, sq \in BOOLEAN, ip \in BOOLEAN, nvs \in NormValsArgs :
           Call(d, c, sq, ip, nvs)

Next == CallAny \/ Repeat \/ Release

Spec == Init /\ [][Next]_vars

----------------------------------------------------------------------------
(* camel on its own: the abbreviation is drawn at the start, camel is       *)
(* applied to it (CamelCall), and the caller may hand the value returned    *)
(* back to camel (CamelAgain).                                              *)

CamelChars == {"L", "l", "A", "a", "n", "d", "2"}
Abbrevs == SeqsUpTo(CamelChars, MaxAbbrevLen) \ {<<>>}

InitCamel ==
    /\ ModuleInit
    /\ Idle
    /\ el \in Abbrevs
    /\ el_camel = <<>>

CamelCall ==
    /\ el_camel = <<>>
    /\ el_camel' = camel(el)
    /\ UNCHANGED <<ree, extended, bse, phase, args, df, callerCols, locals, result, el>>

CamelAgain ==
    /\ el_camel # <<>>
    /\ el' = el_camel
    /\ el_camel' = <<>>
    /\ UNCHANGED <<ree, extended, bse, phase, args, df, callerCols, locals, result>>

NextCamel == CamelCall \/ CamelAgain

SpecCamel == InitCamel /\ [][NextCamel]_vars

----------------------------------------------------------------------------
(* Vocabulary of the properties *)

Returned == phase = "returned"

IsPresetToken(c) ==
    /\ c.type = "str"
    /\ lower(c.val) \in { <<"r","e","e">>, <<"e","x","t","e","n","d","e","d">> }

\* the call selected columns by a preset or by an explicit list
ListSelection == Returned /\ (args.cols.type = "list" \/ IsPresetToken(args.cols))

\* the call selected by one abbreviation
SingleSelection == Returned /\ args.cols.type = "str" /\ ~IsPresetToken(args.cols)

\* the entries the selection spec asks for, in its order
Requested ==
    IF args.cols.type = "list" THEN args.cols.val
    ELSE IF lower(args.cols.val) = <<"r","e","e">> THEN ree_literal
    ELSE IF lower(args.cols.val) = <<"e","x","t","e","n","d","e","d">> THEN extended_literal
    ELSE <<args.cols.val>>

\* the reference table the call uses (the built-in one by default)
Reference == IF args.norm_vals.type = "str" THEN bse ELSE args.norm_vals.val
ReferenceKeys == { Reference.index[k] : k \in 1..Len(Reference.index) }
ReferenceValue(key) ==
    Reference.values[CHOOSE k \in 1..Len(Reference.index) : Reference.index[k] = key]

ObservedColumns == { args.df.columns[k] : k \in 1..Len(args.df.columns) }
ObservedValue(r, c) ==
    args.df.data[r][CHOOSE k \in 1..Len(args.df.columns) : args.df.columns[k] = c]

\* an entry that is a reference key in canonical form and, as spelled, a
\* column of the observation table
Usable(c) == camel(c) \in ReferenceKeys /\ c \in ObservedColumns

\* an entry that is a reference key and an observation column when both are
\* compared in canonical form
UsableCanonically(c) ==
    /\ camel(c) \in { camel(k) : k \in ReferenceKeys }
    /\ camel(c) \in { camel(o) : o \in ObservedColumns }

Canonical(l) == [k \in 1..Len(l) |-> camel(l[k])]

----------------------------------------------------------------------------
(* Properties *)

\* C1: for a preset or list selection whose requested, observed and reference
\* columns intersect when all three are compared in canonical form, the
\* returned table's column labels are the canonical forms of that
\* intersection, in the order of the selection.
C1_ColumnsAreCanonicalIntersection ==
    (ListSelection /\ SelectSeq(Requested, UsableCanonically) # <<>>)
        => /\ result.kind = "DataFrame"
           /\ result.table.columns = Canonical(SelectSeq(Requested, UsableCanonically))

\* C2: when no requested entry is usable, the call ends in the no-match
\* outcome (None) and produces no table.
C2_NoUsableColumnMeansNoMatch ==
    (Returned /\ SelectSeq(Requested, Usable) = <<>>)
        => /\ result.kind = "None"
           /\ result.table = NoTable

\* C3: the returned table has the input's row index and number of rows, and
\* holds at each resolved column c, under the label camel(c), the input
\* value of c divided by the reference value of camel(c).
C3_ValuesAreQuotients ==
    (Returned /\ result.kind = "DataFrame")
        => /\ result.table.index = args.df.index
           /\ Len(result.table.data) = Len(args.df.data)
           /\ Len(result.table.columns) = Len(locals.subset_val)
           /\ \A k \in 1..Len(locals.subset_val) :
                 /\ result.table.columns[k] = camel(locals.subset_val[k])
                 /\ \A r \in 1..Len(args.df.data) :
                       LET a == ObservedValue(r, locals.subset_val[k])
                           b == ReferenceValue(camel(locals.subset_val[k]))
                       IN /\ result.table.data[r][k][1] * b = a * result.table.data[r][k][2]
                          /\ GCD(result.table.data[r][k][1], result.table.data[r][k][2]) = 1
           /\ (/\ args.df.columns = << <<"S","r">>, <<"L","a">>, <<"C","e">> >>
               /\ args.df.index = <<"s1">>
               /\ args.cols = List(<< <<"L","a">>, <<"C","e">> >>)
               /\ args.norm_vals.type = "DataFrame")
                  => result.table = Table(<< <<"L","a">>, <<"C","e">> >>, <<"s1">>,
                                          << << <<10, 1>>, <<5, 1>> >> >>)

C3_Witness ==
    /\ Returned
    /\ result.kind = "DataFrame"
    /\ args.cols = List(<< <<"C","e">>, <<"L","a">> >>)
    /\ args.df.columns = << <<"S","r">>, <<"L","a">>, <<"C","e">> >>
    /\ args.df.index = <<"s2", "s1">>
    /\ args.norm_vals.type = "str"
    /\ Len(result.table.data) = 2

\* C4: a single abbreviation that is no preset token is treated as a
\* one-element list exactly when its canonical form is a key of the reference
\* table in use; otherwise the call ends in the no-match outcome.
C4_SingleAbbreviationByCanonicalKey ==
    SingleSelection
        => IF camel(args.cols.val) \in ReferenceKeys
           THEN locals.cols = "one" /\ locals.cols_val = <<args.cols.val>>
           ELSE result.kind = "None"

C6_OptionsRejectedOrHonoured ==
    (ListSelection /\ (~args.squeeze \/ args.interp))
        => \/ result.kind = "raise" /\ result.exc = "UnsupportedOption"
           \/ /\ result.kind = "DataFrame"
              /\ result.table.columns = Canonical(Requested)

\* C7: a call ends in a table or in the no-match outcome, never in another
\* failure, and it ends in a table whenever some requested entry is usable.
C7_NoMatchIsTheOnlyFailure ==
    Returned
        => /\ result.kind \in {"DataFrame", "None"}
           /\ (SelectSeq(Requested, Usable) # <<>> => result.kind = "DataFrame")

\* C8: camel is idempotent, and its value is the argument with the first
\* character in upper case and every other character in lower case.
C8_CamelIdempotentCanonical ==
    el_camel # <<>>
        => /\ camel(el_camel) = el_camel
           /\ Len(el_camel) = Len(el)
           /\ ~IsLower(el_camel[1])
           /\ \A i \in 2..Len(el_camel) : ~IsUpper(el_camel[i])
           /\ \A i \in 1..Len(el) : Lower(el_camel[i]) = Lower(el[i])
           /\ (el = <<"L","A">> => el_camel = <<"L","a">>)
           /\ (el = <<"n","d">> => el_camel = <<"N","d">>)

C8_Witness == el = <<"L","A">> /\ el_camel = <<"L","a">>

\* C9: when the normalization step is reached, subset_cols holds no None and
\* only entries that are usable, and neither lookup misses a key.
C9_NormalizationLookupsHit ==
    (Returned /\ locals.normalized)
        => /\ locals.subset_val # <<>>
           /\ \A k \in 1..Len(locals.subset_val) :
                 /\ locals.subset_val[k] # None
                 /\ camel(locals.subset_val[k]) \in ReferenceKeys
                 /\ locals.subset_val[k] \in ObservedColumns
           /\ result.exc # "KeyError"

C9_Witness ==
    /\ Returned
    /\ locals.normalized
    /\ args.cols.type = "list"
    /\ Len(locals.subset_val) < Len(args.cols.val)

\* C10: no call changes bse, ree, extended, the caller's cols list or the
\* caller's table, and a repeated call ends as the call before it did.
C10_CallsLeaveObjectsUnchanged ==
    [][ /\ bse' = bse
        /\ ree' = ree
        /\ extended' = extended
        /\ (phase' = "returned" =>
               /\ df' = args'.df
               /\ (args'.cols.type = "list" => callerCols' = args'.cols.val))
        /\ (Repeat => result' = result) ]_vars

C10_Witness ==
    /\ Returned
    /\ locals.cols = "ree"
    /\ locals.subset_cols = "subset"
    /\ Len(locals.subset_val) < Len(ree)

====
